---- MODULE Spec2Model ----
(***************************************************************************)
(* GitHub code search automation (working_UI.py): the paginated,           *)
(* rate-limit-aware search call, the per-organization aggregation of       *)
(* main(), and the two-stage CSV export.                                   *)
(***************************************************************************)
EXTENDS Integers, Sequences, FiniteSets, TLC

\* ------------------------------------------------------------ constants
SEARCH_PER_PAGE == 100

ORGANIZATIONS == <<"ethereum", "Bitbox-Connect", "seopanel">>

\* ------------------------------------------------------------ bounds
\* Small totals / result limits: 0..MaxTotal and 1..MaxTotal.
MaxTotal == 4
\* Large totals / result limits: multiples of half a page up to this many.
MaxHalfPages == 5
\* Owner layouts of an API's items: 0 = no User-owned item, k > 0 = every
\* k-th item is User-owned.
MaxUserEvery == 3
\* Cap on the consecutive 403 responses one page receives.
MaxRateLimited == 2
\* Cap on the file operations that fail in one run.
MaxIoFaults == 1
\* An endpoint holds at most this many pages of the first request's size.
MaxPages == 6
\* Lengths of the raw fragments and of the patterns given to the filter stage.
MaxFragmentLen == 5
MaxPatternLen == 2
\* Totals / result limits of a whole run: up to this, or a page and one.
MaxOrgTotal == 1
\* A result carries at most this many text matches.
MaxTextMatches == 3

Min(a, b) == IF a < b THEN a ELSE b

Max(a, b) == IF a > b THEN a ELSE b

\* ------------------------------------------------------------ the search API
\* The code search endpoint, for one query: `total` matching items in one
\* fixed ordering; page p with page size n holds the items at positions
\* (p-1)*n+1 .. p*n of that ordering.
OwnerType(a, i) ==
    IF a.userEvery > 0 /\ i % a.userEvery = 0 THEN "User" ELSE "Organization"

\* The text-match fragments the endpoint attaches to the item at position i.
TextMatches(i) ==
    IF i % 3 = 1 THEN << [fragment |-> <<"a", "B", "\n", " ", "b">>] >>
    ELSE IF i % 3 = 2 THEN << [fragment |-> <<" ", "A", "b", "\r", "\n">>],
                              [fragment |-> <<"b", "a">>] >>
    ELSE <<>>

Item(a, i) ==
    [ html_url     |-> <<a.login, i>>,
      repository   |-> [owner |-> [type |-> OwnerType(a, i), login |-> a.login]],
      text_matches |-> TextMatches(i) ]

ApiPage(a, p, n) ==
    LET first == (p - 1) * n
        cnt   == Max(0, Min(n, a.total - first))
    IN  [k \in 1..cnt |-> Item(a, first + k)]

ApiResponse(a, p, n) ==
    [ items |-> ApiPage(a, p, n), total_count |-> a.total ]

Totals ==
    (0..MaxTotal) \cup { (SEARCH_PER_PAGE * k) \div 2 : k \in 1..MaxHalfPages }

Apis(login) ==
    [ total : Totals, userEvery : 0..MaxUserEvery, login : {login} ]

\* An endpoint holds at most MaxPages pages of the size a call with this
\* result limit requests first.
Fits(a, limit) == a.total <= MaxPages * Min(SEARCH_PER_PAGE, limit)

\* The endpoint contents of a whole run: a few items, or a page and one.
MainTotals == (0..MaxOrgTotal) \cup {SEARCH_PER_PAGE + 1}

MainApis(login) ==
    [ total : MainTotals, userEvery : 0..MaxUserEvery, login : {login} ]

\* A query qualified with org:<name> matches organization-owned repositories.
OrgApis(login) ==
    [ total : MainTotals, userEvery : {0}, login : {login} ]

\* ------------------------------------------------------------ text
\* A text is a sequence of one-character strings.
LowerChar(c) == IF c = "A" THEN "a" ELSE IF c = "B" THEN "b" ELSE c

Lower(s) == [k \in DOMAIN s |-> LowerChar(s[k])]

IsSpace(c) == c \in {" ", "\n", "\r", "\t"}

RECURSIVE LStrip(_)
LStrip(s) == IF s # <<>> /\ IsSpace(Head(s)) THEN LStrip(Tail(s)) ELSE s

RECURSIVE RStrip(_)
RStrip(s) ==
    IF s # <<>> /\ IsSpace(s[Len(s)]) THEN RStrip(SubSeq(s, 1, Len(s) - 1)) ELSE s

Strip(s) == RStrip(LStrip(s))

Contains(s, p) ==
    \E k \in 0..(Len(s) - Len(p)) : SubSeq(s, k + 1, k + Len(p)) = p

\* str.splitlines(): the lines of s without their line ends; a final line
\* end opens no further line.
RECURSIVE SplitLinesFrom(_, _)
SplitLinesFrom(s, cur) ==
    IF s = <<>> THEN (IF cur = <<>> THEN <<>> ELSE <<cur>>)
    ELSE IF Head(s) = "\n" THEN <<cur>> \o SplitLinesFrom(Tail(s), <<>>)
    ELSE SplitLinesFrom(Tail(s), Append(cur, Head(s)))

SplitLines(s) == SplitLinesFrom(s, <<>>)

RECURSIVE Join(_, _)
Join(sep, parts) ==
    IF parts = <<>> THEN <<>>
    ELSE IF Len(parts) = 1 THEN parts[1]
    ELSE parts[1] \o sep \o Join(sep, Tail(parts))

\* ------------------------------------------------------------ state
VARIABLES
    instance,      \* main: "cloud" or "on_prem"
    pattern,       \* main: the search pattern
    max_results,   \* main / search_github_code: the result limit
    repo_scope,    \* main / search_github_code: "1" = organizations only
    org_idx,       \* main: index of the organization being searched (0: none)
    results,       \* main: the run-wide result list
    summary_file,  \* Search_Summary.txt, a sequence of records
    fragments_file,      \* <name>_fragments.csv
    pattern_lines_file,  \* <name>_pattern_lines.csv
    reported,      \* what print_error / print_info reported, in order
    pc,            \* main's position
    api,           \* the endpoint's content for the query of the current call
    all_files,     \* search_github_code: local
    page,          \* search_github_code: local
    data,          \* search_github_code: local, the last page's JSON
    call,          \* the call's position: "running", "returned", "raised"
    last_request,  \* the request issued last, with its response
    retries,       \* the consecutive 403 responses the current page received
    clean,         \* whether every response of the current call was a success
    appended       \* the pages whose items were appended so far, in order

searchVars ==
    << api, all_files, page, data, call, last_request, retries, clean, appended >>

mainVars == << instance, pattern, max_results, repo_scope, org_idx, results,
               summary_file, fragments_file, pattern_lines_file, reported, pc >>

vars == << instance, pattern, max_results, repo_scope, org_idx, results,
           summary_file, fragments_file, pattern_lines_file, reported, pc,
           api, all_files, page, data, call, last_request, retries, clean,
           appended >>

\* ------------------------------------------------------------ search_github_code
\* Mutant: every request asks for a full page.
PerPage_FullPage(limit, have) == SEARCH_PER_PAGE

PerPage(limit, have) == Min(SEARCH_PER_PAGE, limit - have)

IsOrgItem(item) == item.repository.owner.type = "Organization"

\* Mutant: the scope is ignored.
ScopeFilter_NoFilter(items, scope) == items

ScopeFilter(items, scope) ==
    IF scope = "1" THEN SelectSeq(items, IsOrgItem) ELSE items

\* data.get('total_count', 0) of the return statement.
TotalCount(d) == d.total_count

Unbound == [bound |-> FALSE, total_count |-> 0]

\* A request (its params) with the response it received: the status,
\* whether the response carries the rate-limit headers, the number of items;
\* `attempt` counts the 403 responses the same page received before it, and
\* `after_rate_limit` says that the response before it was a rate-limit 403.
Request(p, n, status, rl, got) ==
    [ org |-> org_idx, page |-> p, per_page |-> n, status |-> status,
      rate_limit |-> rl, n |-> got, attempt |-> retries,
      after_rate_limit |->
          (retries > 0 /\ last_request.status = 403 /\ last_request.rate_limit) ]

NoRequest ==
    [ org |-> 0, page |-> 0, per_page |-> 0, status |-> 0,
      rate_limit |-> FALSE, n |-> 0, attempt |-> 0, after_rate_limit |-> FALSE ]

\* Mutant: the page counter is never incremented.
SearchPage_SamePage ==
    /\ call = "running"
    /\ LET per_page == PerPage(max_results, Len(all_files))
           resp     == ApiResponse(api, page, per_page)
           items    == resp.items
           files    == IF items = <<>> THEN all_files
                       ELSE all_files \o ScopeFilter(items, repo_scope)
           last     == items = <<>> \/ Len(items) < per_page
       IN  /\ last_request' = Request(page, per_page, 200, FALSE, Len(items))
           /\ retries' = 0
           /\ appended' = appended
           /\ data' = [bound |-> TRUE, total_count |-> resp.total_count]
           /\ all_files' = files
           /\ page' = page
           /\ call' = IF last \/ ~(Len(files) < max_results)
                      THEN "returned" ELSE "running"
    /\ UNCHANGED << api, clean, mainVars >>

\* One iteration of the loop whose response is a success.
SearchPage ==
    /\ call = "running"
    /\ LET per_page == PerPage(max_results, Len(all_files))
           resp     == ApiResponse(api, page, per_page)
           items    == resp.items
           files    == IF items = <<>> THEN all_files
                       ELSE all_files \o ScopeFilter(items, repo_scope)
           last     == items = <<>> \/ Len(items) < per_page
       IN  /\ last_request' = Request(page, per_page, 200, FALSE, Len(items))
           /\ retries' = 0
           /\ appended' = IF items = <<>> THEN appended
                          ELSE Append(appended, [org |-> org_idx, page |-> page])
           /\ data' = [bound |-> TRUE, total_count |-> resp.total_count]
           /\ all_files' = files
           /\ page' = IF last THEN page ELSE page + 1
           /\ call' = IF last \/ ~(Len(files) < max_results)
                      THEN "returned" ELSE "running"
    /\ UNCHANGED << api, clean, mainVars >>

\* One iteration whose response has status 403, with or without the
\* rate-limit headers: sleep, then `continue`.
SearchRateLimited ==
    /\ call = "running"
    /\ retries < MaxRateLimited
    /\ \E rl \in BOOLEAN :
         last_request' =
             Request(page, PerPage(max_results, Len(all_files)), 403, rl, 0)
    /\ retries' = retries + 1
    /\ clean' = FALSE
    /\ UNCHANGED << api, all_files, page, data, call, appended, mainVars >>

\* One iteration whose response has another error status: raise_for_status().
ErrorStatuses == {401, 422, 500}

SearchRaises ==
    /\ call = "running"
    /\ \E st \in ErrorStatuses :
         last_request' =
             Request(page, PerPage(max_results, Len(all_files)), st, FALSE, 0)
    /\ call' = "raised"
    /\ clean' = FALSE
    /\ UNCHANGED << api, all_files, page, data, retries, appended, mainVars >>

\* The status recorded for a request that received no response.
TimedOut == 0 - 1

\* One iteration whose connection stalls: session.get carries no timeout of
\* its own, the session's default total timeout ends the wait with
\* asyncio.TimeoutError, which nothing in the loop catches.
SearchTimesOut ==
    /\ call = "running"
    /\ last_request' =
         Request(page, PerPage(max_results, Len(all_files)), TimedOut, FALSE, 0)
    /\ call' = "raised"
    /\ clean' = FALSE
    /\ UNCHANGED << api, all_files, page, data, retries, appended, mainVars >>

\* ------------------------------------------------------------ files
Absent == [exists |-> FALSE, header |-> <<>>, rows |-> <<>>]

\* A file opened for writing whose first write failed: it exists and is empty.
EmptyFile == [exists |-> TRUE, header |-> <<>>, rows |-> <<>>]

CsvFile(header, rows) == [exists |-> TRUE, header |-> header, rows |-> rows]

\* ------------------------------------------------------------ main: fragments
gh_code_search_columns ==
    << "html_url", "name", "path", "repository.fork", "repository.html_url",
       "repository.name", "repository.owner.type", "repository.owner.login",
       "fragment" >>

RemoveCR(s) == SelectSeq(s, LAMBDA c : c # "\r")

\* The fragments list built for one item.
RECURSIVE ItemFragments(_)
ItemFragments(tms) ==
    IF tms = <<>> THEN <<>>
    ELSE LET fragment_text == Head(tms).fragment
         IN  (IF fragment_text # <<>> THEN << Strip(RemoveCR(fragment_text)) >>
              ELSE <<>>) \o ItemFragments(Tail(tms))

FragmentSeparator == <<"\n", "-", "-", "-", "\n">>

ExtractFragment(item) == Join(FragmentSeparator, ItemFragments(item.text_matches))

WithFragment(item) ==
    [ html_url     |-> item.html_url,
      repository   |-> item.repository,
      text_matches |-> item.text_matches,
      fragment     |-> ExtractFragment(item) ]

\* ------------------------------------------------------------ save_results_to_csv
\* get_nested_value: <<v>> when the dotted path resolves to v, <<>> for None.
GetNestedValue(item, path) ==
    IF path = "html_url" THEN << item.html_url >>
    ELSE IF path = "repository.owner.type" THEN << item.repository.owner.type >>
    ELSE IF path = "repository.owner.login" THEN << item.repository.owner.login >>
    ELSE IF path = "fragment" THEN << item.fragment >>
    ELSE <<>>

\* csv.writer writes None as the empty field; the reader returns text.
CsvCell(v) == IF v = <<>> THEN <<>> ELSE v[1]

CsvRow(item, columns) ==
    [k \in DOMAIN columns |-> CsvCell(GetNestedValue(item, columns[k]))]

CsvRows(items, columns) == [k \in DOMAIN items |-> CsvRow(items[k], columns)]

\* ------------------------------------------------------------ filter_fragments_by_pattern
RECURSIVE MatchingLines(_, _)
MatchingLines(lines, pat) ==
    IF lines = <<>> THEN <<>>
    ELSE (IF Contains(Lower(Head(lines)), Lower(pat)) THEN << Strip(Head(lines)) >>
          ELSE <<>>) \o MatchingLines(Tail(lines), pat)

\* Mutant: the comparison keeps the case.
extract_pattern_lines_CaseSensitive(fragment, pat) ==
    LET lines == SplitLines(fragment)
        kept  == { k \in DOMAIN lines : Contains(lines[k], pat) }
    IN  IF kept = {} THEN <<>>
        ELSE LET hits == SelectSeq(lines, LAMBDA l : Contains(l, pat))
             IN  [k \in DOMAIN hits |-> Strip(hits[k])]

extract_pattern_lines_from_fragment(fragment, pat) ==
    MatchingLines(SplitLines(fragment), pat)

\* row.get(col, "") of a csv.DictReader row.
RowGet(fieldnames, row, col) ==
    IF \E k \in DOMAIN fieldnames : fieldnames[k] = col
    THEN row[CHOOSE k \in DOMAIN fieldnames :
                 /\ fieldnames[k] = col
                 /\ \A j \in DOMAIN fieldnames : fieldnames[j] = col => j <= k]
    ELSE <<>>

FilterRow(fieldnames, row, pat) ==
    LET lines == extract_pattern_lines_from_fragment(
                     RowGet(fieldnames, row, "fragment"), pat)
    IN  [k \in DOMAIN lines |-> Append(row, lines[k])]

\* The output rows of the rows lo..hi, in row order (the loop over the
\* reader, split in halves to keep the evaluation shallow).
RECURSIVE FilterRowsRange(_, _, _, _, _)
FilterRowsRange(fieldnames, rows, pat, lo, hi) ==
    IF lo > hi THEN <<>>
    ELSE IF lo = hi THEN FilterRow(fieldnames, rows[lo], pat)
    ELSE LET mid == (lo + hi) \div 2
         IN  FilterRowsRange(fieldnames, rows, pat, lo, mid)
             \o FilterRowsRange(fieldnames, rows, pat, mid + 1, hi)

FilterRows(fieldnames, rows, pat) ==
    FilterRowsRange(fieldnames, rows, pat, 1, Len(rows))

\* The fieldnames and output rows after the reading try block: `readable` is
\* whether opening and parsing the input raised nothing.
FilterFieldnames(input, readable) ==
    IF input.exists /\ readable THEN input.header ELSE <<>>

FilterOutputRows(input, readable, pat) ==
    IF input.exists /\ readable
    THEN FilterRows(input.header, input.rows, pat)
    ELSE <<>>

FilterOutputHeader(fieldnames) == Append(fieldnames, "matching_line")

\* ------------------------------------------------------------ main
\* The file operations that failed so far (a missing input is no failure of
\* its own: it follows from the failed export).
IoFaults ==
    Len(SelectSeq(reported, LAMBDA m :
            m \in {"summary_error", "export_error", "read_error", "filter_error"}))

\* The outcomes of the next file operation: TRUE = it succeeds.
Outcomes == IF IoFaults < MaxIoFaults THEN BOOLEAN ELSE {TRUE}

OrgSummaryLine(org, count) ==
    [kind |-> "org", org |-> org, count |-> count, fetched |-> 0]

ConfigSummaryLine(count, fetched) ==
    [kind |-> "config", org |-> "", count |-> count, fetched |-> fetched]

\* Mutant: the new results are put in front.
MergeResults_Prepend(acc, found) == found \o acc

\* results.extend(org_results)
MergeResults(acc, found) == acc \o found

\* Mutant: the file is opened with "w".
AppendLine_Overwrite(file, line) == << line >>

\* open(summary_file, "a") ... f.write(line)
AppendLine(file, line) == Append(file, line)

\* The state in which the next search call starts.
StartCall(a) ==
    /\ api' = a
    /\ all_files' = <<>>
    /\ page' = 1
    /\ data' = Unbound
    /\ call' = "running"
    /\ retries' = 0
    /\ clean' = TRUE

\* Cloud loop body after the await: extend the results, append the summary
\* record (a failure is reported and skipped), then the next organization's
\* search or the end of the loop.
CloudOrgDone ==
    /\ pc = "search"
    /\ instance = "cloud"
    /\ call = "returned"
    /\ results' = MergeResults(results, all_files)
    /\ \E wrote \in Outcomes :
         /\ summary_file' =
              IF wrote
              THEN AppendLine(summary_file,
                     OrgSummaryLine(ORGANIZATIONS[org_idx], TotalCount(data)))
              ELSE summary_file
         /\ reported' = IF wrote THEN reported
                        ELSE Append(reported, "summary_error")
    /\ IF org_idx < Len(ORGANIZATIONS)
       THEN /\ org_idx' = org_idx + 1
            /\ \E a \in OrgApis(ORGANIZATIONS[org_idx + 1]) :
                 Fits(a, max_results) /\ StartCall(a)
            /\ pc' = "search"
       ELSE /\ pc' = "summary"
            /\ call' = "idle"
            /\ UNCHANGED << org_idx, api, all_files, page, data, retries, clean >>
    /\ UNCHANGED << instance, pattern, max_results, repo_scope, fragments_file,
                    pattern_lines_file, last_request, appended >>

\* After the loop: the configuration lines are appended to the summary.
CloudSummary ==
    /\ pc = "summary"
    /\ instance = "cloud"
    /\ \E wrote \in Outcomes :
         /\ summary_file' =
              IF wrote
              THEN AppendLine(summary_file, ConfigSummaryLine(0, Len(results)))
              ELSE summary_file
         /\ reported' = IF wrote THEN reported
                        ELSE Append(reported, "summary_error")
    /\ pc' = "process"
    /\ UNCHANGED << instance, pattern, max_results, repo_scope, org_idx, results,
                    fragments_file, pattern_lines_file, searchVars >>

\* On-premise: the single search returned; the summary is written anew.
OnPremDone ==
    /\ pc = "search"
    /\ instance = "on_prem"
    /\ call = "returned"
    /\ results' = all_files
    /\ \E wrote \in Outcomes :
         /\ summary_file' =
              IF wrote
              THEN << ConfigSummaryLine(TotalCount(data), Len(all_files)) >>
              ELSE summary_file
         /\ reported' = IF wrote THEN reported
                        ELSE Append(reported, "summary_error")
    /\ pc' = "process"
    /\ call' = "idle"
    /\ UNCHANGED << instance, pattern, max_results, repo_scope, org_idx,
                    fragments_file, pattern_lines_file,
                    api, all_files, page, data, last_request, retries, clean,
                    appended >>

\* Step 5: the fragment field of every result.
ProcessResults ==
    /\ pc = "process"
    /\ results' = [k \in DOMAIN results |-> WithFragment(results[k])]
    /\ pc' = "export"
    /\ UNCHANGED << instance, pattern, max_results, repo_scope, org_idx,
                    summary_file, fragments_file, pattern_lines_file, reported,
                    searchVars >>

\* Mutant: a failed write is not caught and ends the run.
SaveResultsToCsv_Raises ==
    /\ pc = "export"
    /\ \E wrote \in Outcomes :
         IF wrote
         THEN /\ fragments_file' =
                   CsvFile(gh_code_search_columns,
                           CsvRows(results, gh_code_search_columns))
              /\ reported' = reported
              /\ pc' = "filter"
         ELSE /\ fragments_file' \in {Absent, EmptyFile}
              /\ reported' = Append(reported, "export_error")
              /\ pc' = "error"
    /\ UNCHANGED << instance, pattern, max_results, repo_scope, org_idx, results,
                    summary_file, pattern_lines_file, searchVars >>

\* Step 6: save_results_to_csv. A failure is reported and swallowed; it
\* leaves no file (open failed) or an empty one (a write failed).
SaveResultsToCsv ==
    /\ pc = "export"
    /\ \E wrote \in Outcomes :
         IF wrote
         THEN /\ fragments_file' =
                   CsvFile(gh_code_search_columns,
                           CsvRows(results, gh_code_search_columns))
              /\ reported' = reported
         ELSE /\ fragments_file' \in {Absent, EmptyFile}
              /\ reported' = Append(reported, "export_error")
    /\ pc' = "filter"
    /\ UNCHANGED << instance, pattern, max_results, repo_scope, org_idx, results,
                    summary_file, pattern_lines_file, searchVars >>

\* Step 7: filter_fragments_by_pattern. Reading fails when the input is
\* missing or unreadable, writing fails on its own; both failures are
\* reported and swallowed.
FilterFragmentsByPattern ==
    /\ pc = "filter"
    /\ \E readable \in (IF fragments_file.exists THEN Outcomes ELSE {FALSE}) :
         LET fieldnames == FilterFieldnames(fragments_file, readable)
             rows       == FilterOutputRows(fragments_file, readable, pattern)
             r1 == IF readable THEN reported
                   ELSE IF fragments_file.exists
                        THEN Append(reported, "read_error")
                        ELSE Append(reported, "read_missing")
         IN  \E wrote \in (IF readable \/ ~fragments_file.exists
                           THEN Outcomes ELSE {TRUE}) :
               /\ pattern_lines_file' =
                    IF wrote THEN CsvFile(FilterOutputHeader(fieldnames), rows)
                    ELSE Absent
               /\ reported' = IF wrote THEN r1 ELSE Append(r1, "filter_error")
    /\ pc' = "done"
    /\ UNCHANGED << instance, pattern, max_results, repo_scope, org_idx, results,
                    summary_file, fragments_file, searchVars >>

\* Mutant: the failure is reported and what was aggregated is exported.
RunAborted_ExportsPartial ==
    /\ pc = "search"
    /\ call = "raised"
    /\ pc' = "process"
    /\ reported' = Append(reported, "unexpected_error")
    /\ UNCHANGED << instance, pattern, max_results, repo_scope, org_idx, results,
                    summary_file, fragments_file, pattern_lines_file, searchVars >>

\* except Exception: a search call raised; the run reports it and ends.
RunAborted ==
    /\ pc = "search"
    /\ call = "raised"
    /\ pc' = "error"
    /\ reported' = Append(reported, "unexpected_error")
    /\ UNCHANGED << instance, pattern, max_results, repo_scope, org_idx, results,
                    summary_file, fragments_file, pattern_lines_file, searchVars >>

\* KeyboardInterrupt while the search awaits a response or sleeps.
Cancel ==
    /\ pc = "search"
    /\ call = "running"
    /\ pc' = "cancelled"
    /\ call' = "cancelled"
    /\ reported' = Append(reported, "cancelled")
    /\ UNCHANGED << instance, pattern, max_results, repo_scope, org_idx, results,
                    summary_file, fragments_file, pattern_lines_file,
                    api, all_files, page, data, last_request, retries, clean,
                    appended >>

MainPatterns == { <<"a", "B">> }

Init ==
    /\ instance \in {"cloud", "on_prem"}
    /\ pattern \in MainPatterns
    /\ max_results \in MainTotals \ {0}
    /\ repo_scope \in (IF instance = "cloud" THEN {"2"} ELSE {"1", "2"})
    /\ org_idx = (IF instance = "cloud" THEN 1 ELSE 0)
    /\ results = <<>>
    /\ summary_file = <<>>
    /\ fragments_file = Absent
    /\ pattern_lines_file = Absent
    /\ reported = <<>>
    /\ pc = "search"
    /\ api \in (IF instance = "cloud" THEN OrgApis(ORGANIZATIONS[1])
                ELSE MainApis("acme"))
    /\ Fits(api, max_results)
    /\ all_files = <<>>
    /\ page = 1
    /\ data = Unbound
    /\ call = "running"
    /\ last_request = NoRequest
    /\ retries = 0
    /\ clean = TRUE
    /\ appended = <<>>

Next ==
    \/ SearchPage
    \/ SearchRateLimited
    \/ SearchRaises
    \/ SearchTimesOut
    \/ CloudOrgDone
    \/ CloudSummary
    \/ OnPremDone
    \/ ProcessResults
    \/ SaveResultsToCsv
    \/ FilterFragmentsByPattern
    \/ RunAborted
    \/ Cancel

Spec == Init /\ [][Next]_vars

\* ------------------------------------------------------------ a search call alone
InitSearch ==
    /\ instance = "on_prem"
    /\ pattern = <<"a">>
    /\ max_results \in Totals \ {0}
    /\ repo_scope \in {"1", "2"}
    /\ org_idx = 0
    /\ results = <<>>
    /\ summary_file = <<>>
    /\ fragments_file = Absent
    /\ pattern_lines_file = Absent
    /\ reported = <<>>
    /\ pc = "search"
    /\ api \in Apis("acme")
    /\ Fits(api, max_results)
    /\ all_files = <<>>
    /\ page = 1
    /\ data = Unbound
    /\ call = "running"
    /\ last_request = NoRequest
    /\ retries = 0
    /\ clean = TRUE
    /\ appended = <<>>

NextSearch ==
    \/ SearchPage
    \/ SearchRateLimited
    \/ SearchRaises
    \/ SearchTimesOut

SpecSearch == InitSearch /\ [][NextSearch]_vars

\* The loop keeps running: every request it issues receives a response, a
\* timeout included, and a page receives at most MaxRateLimited consecutive
\* 403 responses.
SpecSearchLive == SpecSearch /\ WF_vars(NextSearch)

\* ------------------------------------------------------------ the export stages alone
FragmentChars == {"a", "B", " ", "\n"}

PatternChars == {"a", "b", " "}

TextsOver(chars, n) == UNION { [1..k -> chars] : k \in 0..n }

\* ask_required strips the pattern and refuses the empty one.
Patterns ==
    { p \in TextsOver(PatternChars, MaxPatternLen) : p # <<>> /\ Strip(p) = p }

\* A result whose text matches carry the given raw fragments.
ResultWith(i, raws) ==
    [ html_url     |-> << "acme", i >>,
      repository   |-> [owner |-> [type |-> "Organization", login |-> "acme"]],
      text_matches |-> [k \in DOMAIN raws |-> [fragment |-> raws[k]]] ]

InitFilter ==
    /\ instance = "on_prem"
    /\ pattern \in Patterns
    /\ max_results = 2
    /\ repo_scope = "2"
    /\ org_idx = 0
    /\ \E raw \in TextsOver(FragmentChars, MaxFragmentLen) :
         results = << ResultWith(1, << raw >>),
                      ResultWith(2, << <<"B", "a">>, <<"a", " ", "b">> >>) >>
    /\ summary_file = << ConfigSummaryLine(2, 2) >>
    /\ fragments_file = Absent
    /\ pattern_lines_file = Absent
    /\ reported = <<>>
    /\ pc = "process"
    /\ api = [total |-> 2, userEvery |-> 0, login |-> "acme"]
    /\ all_files = results
    /\ page = 1
    /\ data = [bound |-> TRUE, total_count |-> 2]
    /\ call = "idle"
    /\ last_request = NoRequest
    /\ retries = 0
    /\ clean = TRUE
    /\ appended = << [org |-> 0, page |-> 1] >>

NextFilter ==
    \/ ProcessResults
    \/ SaveResultsToCsv
    \/ FilterFragmentsByPattern

SpecFilter == InitFilter /\ [][NextFilter]_vars

\* ------------------------------------------------------------ step 5 alone
\* Raw fragment texts: empty, blank, carriage returns, padded, plain.
RawFragments ==
    { <<>>, <<" ">>, <<"\r">>, <<"\r", "\n">>, <<"a">>,
      <<" ", "a", "\r">>, <<"a", "\r", "\n", "B">> }

RawFragmentLists == UNION { [1..n -> RawFragments] : n \in 0..MaxTextMatches }

InitFragments ==
    /\ instance = "on_prem"
    /\ pattern = <<"a">>
    /\ max_results = 1
    /\ repo_scope = "2"
    /\ org_idx = 0
    /\ \E raws \in RawFragmentLists : results = << ResultWith(1, raws) >>
    /\ summary_file = << ConfigSummaryLine(1, 1) >>
    /\ fragments_file = Absent
    /\ pattern_lines_file = Absent
    /\ reported = <<>>
    /\ pc = "process"
    /\ api = [total |-> 1, userEvery |-> 0, login |-> "acme"]
    /\ all_files = results
    /\ page = 1
    /\ data = [bound |-> TRUE, total_count |-> 1]
    /\ call = "idle"
    /\ last_request = NoRequest
    /\ retries = 0
    /\ clean = TRUE
    /\ appended = << [org |-> 0, page |-> 1] >>

SpecFragments == InitFragments /\ [][NextFilter]_vars

\* ------------------------------------------------------------ claims
Occurrences(item, files) ==
    Cardinality({k \in DOMAIN files : files[k].html_url = item.html_url})

\* The page the last request asked for, as the endpoint serves it.
LastPageItems ==
    ApiPage(api, last_request.page, last_request.per_page)

\* C1: with only success responses and every repository in scope, a returned
\* search call holds exactly min(N, max_results) items, N the number of items
\* the endpoint holds.
C1_Pagination ==
    (call = "returned" /\ clean /\ repo_scope = "2")
        => Len(all_files) = Min(api.total, max_results)

\* C1: the endpoint holds 100 items, 150 are asked for: the call requests
\* page 1 of size 100, then page 2 of size 50, and returns 150 items.
C1_Witness ==
    /\ call = "returned" /\ clean /\ repo_scope = "2"
    /\ max_results = 150 /\ api.total = 100
    /\ Len(all_files) = 150
    /\ last_request.page = 2 /\ last_request.per_page = 50

\* C2: once a page that received a 403 response succeeds on retry, every item
\* of that page that is in scope occurs exactly once in the accumulated list.
C2_RetryExactlyOnce ==
    (last_request.status = 200 /\ last_request.after_rate_limit)
        => \A k \in DOMAIN LastPageItems :
             (repo_scope = "1" => IsOrgItem(LastPageItems[k]))
                 => Occurrences(LastPageItems[k], all_files) = 1

\* C2: page 2 of size 50 succeeded on its second attempt and the item at
\* position 51, served by page 1 and again by page 2, is held twice.
C2_Witness ==
    /\ last_request.status = 200 /\ last_request.after_rate_limit
    /\ last_request.page = 2 /\ last_request.per_page = 50
    /\ repo_scope = "2"
    /\ Occurrences(Item(api, 51), all_files) = 2

\* C3: a non-success response that is not a rate-limit response (a 403
\* without the rate-limit headers included) is fatal: the call has raised.
C3_OnlyRateLimitRetried ==
    (last_request.status \notin {0, 200}
       /\ ~(last_request.status = 403 /\ last_request.rate_limit))
        => call = "raised"

\* C3: a 403 without rate-limit headers was received and the call goes on.
C3_Witness ==
    /\ last_request.status = 403 /\ ~last_request.rate_limit
    /\ call = "running" /\ pc = "search"

\* C4: under scope "1" every accumulated item is owned by an Organization,
\* and the total a returned call reports is the endpoint's total_count,
\* whatever the filter dropped and whatever max_results cut off.
C4_ScopeFiltering ==
    /\ repo_scope = "1" => \A k \in DOMAIN all_files : IsOrgItem(all_files[k])
    /\ call = "returned" => data.bound /\ TotalCount(data) = api.total

\* C4: 3 items, the third User-owned: 2 results and a total of 3.
C4_Witness ==
    /\ call = "returned" /\ repo_scope = "1"
    /\ api.total = 3 /\ api.userEvery = 3
    /\ Len(all_files) = 2 /\ TotalCount(data) = 3

\* ---- claims about a whole run
OrgIndex(login) == CHOOSE k \in DOMAIN ORGANIZATIONS : ORGANIZATIONS[k] = login

ItemOrg(item) == OrgIndex(item.repository.owner.login)

Reported(m) == \E k \in DOMAIN reported : reported[k] = m

LoginColumn == CHOOSE k \in DOMAIN gh_code_search_columns :
                   gh_code_search_columns[k] = "repository.owner.login"

\* C5: in Cloud mode the aggregated list and the full export hold the
\* organizations' results in query order, a call runs for one organization at
\* a time (while organization i is searched the aggregated list holds only
\* earlier organizations' results and the call's list only its own), and
\* within one organization pages are appended in strictly increasing order.
C5_Ordering ==
    instance = "cloud" =>
      /\ \A k \in 1..(Len(results) - 1) :
           ItemOrg(results[k]) <= ItemOrg(results[k + 1])
      /\ \A k \in 1..(Len(fragments_file.rows) - 1) :
           OrgIndex(fragments_file.rows[k][LoginColumn])
               <= OrgIndex(fragments_file.rows[k + 1][LoginColumn])
      /\ fragments_file.exists /\ fragments_file.header # <<>> =>
           Len(fragments_file.rows) = Len(results)
      /\ \A k \in 1..(Len(appended) - 1) :
           \/ appended[k].org < appended[k + 1].org
           \/ /\ appended[k].org = appended[k + 1].org
              /\ appended[k].page < appended[k + 1].page
      /\ pc = "search" =>
           /\ \A k \in DOMAIN results : ItemOrg(results[k]) < org_idx
           /\ \A k \in DOMAIN all_files : ItemOrg(all_files[k]) = org_idx
           /\ last_request.org <= org_idx
           /\ \A k \in DOMAIN appended : appended[k].org <= org_idx

\* C5: a finished Cloud run whose export holds results of the first and of
\* the last organization, one organization having had two pages appended.
C5_Witness ==
    /\ instance = "cloud" /\ pc = "done"
    /\ fragments_file.exists /\ Len(fragments_file.rows) > 1
    /\ fragments_file.rows[1][LoginColumn] = ORGANIZATIONS[1]
    /\ fragments_file.rows[Len(fragments_file.rows)][LoginColumn]
           = ORGANIZATIONS[3]
    /\ \E k \in 1..(Len(appended) - 1) : appended[k].org = appended[k + 1].org

C6_Inv ==
    last_request.status \in ErrorStatuses =>
      /\ call = "raised"
      /\ pc \in {"search", "error"}
      /\ last_request.org = org_idx
      /\ fragments_file = Absent
      /\ pattern_lines_file = Absent
      /\ pc = "error" =>
           reported # <<>> /\ reported[Len(reported)] = "unexpected_error"

C6_Step ==
    call = "raised" =>
      /\ pc = "search"
      /\ pc' = "error"
      /\ UNCHANGED << results, summary_file, fragments_file, pattern_lines_file,
                      org_idx, searchVars >>

\* C6: once a search call has raised, no further request is issued (no later
\* organization is searched), neither export file is ever written, and the
\* only step left is the top-level handler's, which reports the error and
\* ends the run.
C6_AbortOnSearchFailure == []C6_Inv /\ [][C6_Step]_vars

\* C6: the second organization's search raised after the first one's
\* results were aggregated, and the run ended reported.
C6_Witness ==
    /\ pc = "error" /\ instance = "cloud" /\ org_idx = 2
    /\ results # <<>>
    /\ Reported("unexpected_error")

OrgRecords == SelectSeq(summary_file, LAMBDA l : l.kind = "org")

\* The organizations whose search has completed and whose loop body has run.
Completed ==
    IF pc \in {"search", "error", "cancelled"} THEN org_idx - 1
    ELSE Len(ORGANIZATIONS)

SummaryFaults ==
    Len(SelectSeq(reported, LAMBDA m : m = "summary_error"))

IsPrefix(a, b) == Len(a) <= Len(b) /\ SubSeq(b, 1, Len(a)) = a

\* C7 as stated: in Cloud mode the summary holds exactly one record for each
\* completed organization, in query order.
C7_SummaryExact ==
    instance = "cloud" =>
      /\ Len(OrgRecords) = Completed
      /\ \A k \in DOMAIN OrgRecords : OrgRecords[k].org = ORGANIZATIONS[k]

C7_Inv ==
    instance = "cloud" =>
      /\ \A k \in DOMAIN OrgRecords : OrgIndex(OrgRecords[k].org) <= Completed
      /\ \A k \in 1..(Len(OrgRecords) - 1) :
           OrgIndex(OrgRecords[k].org) < OrgIndex(OrgRecords[k + 1].org)
      /\ Len(OrgRecords) <= Completed
      /\ Completed <= Len(OrgRecords) + SummaryFaults
      /\ SummaryFaults = 0 =>
           \A k \in 1..Completed : OrgRecords[k].org = ORGANIZATIONS[k]

C7_Step ==
    /\ IsPrefix(summary_file, summary_file')
    /\ (instance = "cloud" /\ org_idx' = org_idx + 1 /\ reported' = reported)
         => /\ Len(summary_file') = Len(summary_file) + 1
            /\ summary_file'[Len(summary_file')] =
                   OrgSummaryLine(ORGANIZATIONS[org_idx], api.total)

\* C7 amended: the summary is append-only; in Cloud mode it holds at most one
\* record per completed organization, in query order, none for an
\* organization not yet completed, and exactly one, with that organization's
\* total, for each completed organization whose append did not fail.
C7_SummaryPersistence == []C7_Inv /\ [][C7_Step]_vars

\* C7: the third organization's search failed or was cancelled and the
\* records of the first two are in the file.
C7_Witness ==
    /\ instance = "cloud" /\ pc \in {"error", "cancelled"} /\ org_idx = 3
    /\ Len(OrgRecords) = 2
    /\ OrgRecords[1].org = ORGANIZATIONS[1] /\ OrgRecords[2].org = ORGANIZATIONS[2]

\* C8: whenever the filter stage has written its output, the header is the
\* full-export column list followed by the matching-line column, and a
\* missing or unreadable input gives that header and no rows.
C8_FilteredHeader ==
    (pc = "done" /\ pattern_lines_file.exists) =>
      /\ pattern_lines_file.header
             = Append(gh_code_search_columns, "matching_line")
      /\ (~fragments_file.exists \/ Reported("read_error"))
             => pattern_lines_file.rows = <<>>

\* C8: the input is missing and the output's header is the matching-line
\* column alone.
C8_Witness ==
    /\ pc = "done" /\ ~fragments_file.exists /\ pattern_lines_file.exists
    /\ pattern_lines_file.header = << "matching_line" >>
    /\ pattern_lines_file.rows = <<>>

C9_Inv ==
    /\ Reported("export_error") => pc \in {"filter", "done"}
    /\ pc \in {"filter", "done"} =>
         \/ Reported("export_error")
         \/ fragments_file =
                CsvFile(gh_code_search_columns,
                        CsvRows(results, gh_code_search_columns))
    /\ pc = "done" => (pattern_lines_file.exists \/ Reported("filter_error"))
    /\ pc \notin {"filter", "done"} => ~fragments_file.exists
    /\ pc # "done" =>
         /\ ~pattern_lines_file.exists
         /\ ~Reported("filter_error") /\ ~Reported("read_error")
         /\ ~Reported("read_missing")

C9_Step ==
    /\ pc = "export" => pc' = "filter"
    /\ pc = "filter" => pc' = "done"

\* C9: a failed full export is reported and the run goes on: the step after
\* the export stage is always the filter stage, whose step always ends the
\* run normally having written its output or reported its own failure; the
\* export is attempted for every result list, the empty one included, and
\* before the filter stage.
C9_ExportFailuresIsolated == []C9_Inv /\ [][C9_Step]_vars

\* C9: the full export failed, the filter stage wrote its file and the run
\* completed.
C9_Witness ==
    /\ pc = "done" /\ Reported("export_error")
    /\ pattern_lines_file.exists

\* ---- claims about the filter stage
\* Stated without the operators of the model: letters equal up to case, a
\* pattern occurring in a text, the line that starts at a position, a text
\* without its leading and trailing blanks.
SameLetter(c, d) ==
    \/ c = d
    \/ {c, d} = {"a", "A"}
    \/ {c, d} = {"b", "B"}

OccursIn(p, t) ==
    \E o \in 0..(Len(t) - Len(p)) :
        \A j \in 1..Len(p) : SameLetter(t[o + j], p[j])

LineStarts(f) == {1} \cup { k + 1 : k \in { j \in DOMAIN f : f[j] = "\n" } }

LineAt(f, start) ==
    LET ends == { j \in start..Len(f) : f[j] = "\n" } \cup { Len(f) + 1 }
        stop == CHOOSE e \in ends : \A x \in ends : e <= x
    IN  SubSeq(f, start, stop - 1)

Trimmed(t) ==
    LET inked == { j \in DOMAIN t : t[j] # " " }
    IN  IF inked = {} THEN <<>>
        ELSE SubSeq(t, CHOOSE a \in inked : \A x \in inked : a <= x,
                       CHOOSE b \in inked : \A x \in inked : x <= b)

MatchStarts(f, p) == { st \in LineStarts(f) : OccursIn(p, LineAt(f, st)) }

NthOf(S, k) == CHOOSE x \in S : Cardinality({ y \in S : y < x }) = k - 1

ExpectedLines(f, p) ==
    [k \in 1..Cardinality(MatchStarts(f, p)) |->
        Trimmed(LineAt(f, NthOf(MatchStarts(f, p), k)))]

FragmentColumn == CHOOSE k \in DOMAIN gh_code_search_columns :
                      gh_code_search_columns[k] = "fragment"

RECURSIVE ExpectedRows(_, _)
ExpectedRows(rows, p) ==
    IF rows = <<>> THEN <<>>
    ELSE LET lines == ExpectedLines(Head(rows)[FragmentColumn], p)
         IN  [k \in DOMAIN lines |-> Head(rows) \o << lines[k] >>]
             \o ExpectedRows(Tail(rows), p)

\* C10: when the filter stage has read the full export and written its
\* output, the output rows are, row by row and line by line in order, one row
\* for each line of the row's fragment in which the pattern occurs up to
\* case, made of the row's values followed by the line without its leading
\* and trailing blanks; the rows of the full export carry the fragments of
\* the results.
C10_FilteredRows ==
    (pc = "done" /\ pattern_lines_file.exists /\ fragments_file.exists
       /\ fragments_file.header # <<>> /\ ~Reported("read_error"))
      => /\ pattern_lines_file.rows = ExpectedRows(fragments_file.rows, pattern)
         /\ \A k \in DOMAIN results :
              fragments_file.rows[k][FragmentColumn] = results[k].fragment

\* C10: the fragment a, B, a on three lines and the pattern b give exactly
\* one output row for that result, with matching line B.
C10_Witness ==
    /\ pc = "done" /\ pattern_lines_file.exists /\ pattern = << "b" >>
    /\ fragments_file.exists /\ fragments_file.header # <<>>
    /\ fragments_file.rows[1][FragmentColumn] = << "a", "\n", "B", "\n", "a" >>
    /\ Cardinality({ k \in DOMAIN pattern_lines_file.rows :
                       pattern_lines_file.rows[k][1] = << "acme", 1 >> }) = 1
    /\ pattern_lines_file.rows[1] =
           fragments_file.rows[1] \o << << "B" >> >>

\* ---- claims about the fragment field
\* A raw fragment without its carriage returns and without the blanks and
\* line ends at its two ends.
CleanFragment(t) ==
    LET u     == SelectSeq(t, LAMBDA c : c # "\r")
        inked == { j \in DOMAIN u : u[j] \notin {" ", "\n", "\t"} }
    IN  IF inked = {} THEN <<>>
        ELSE SubSeq(u, CHOOSE a \in inked : \A x \in inked : a <= x,
                       CHOOSE b \in inked : \A x \in inked : x <= b)

SurvivingFragments(tms) ==
    SelectSeq([k \in DOMAIN tms |-> CleanFragment(tms[k].fragment)],
              LAMBDA f : f # <<>>)

\* C11: once step 5 has run, the fragment field of every result is the join,
\* with the separator, of exactly those of its raw fragments that are
\* non-empty after the carriage returns are removed and the ends trimmed, in
\* their order: a fragment that is empty after cleaning adds no segment.
C11_FragmentExtraction ==
    pc \in {"export", "filter", "done"} =>
      \A k \in DOMAIN results :
          results[k].fragment =
              Join(FragmentSeparator, SurvivingFragments(results[k].text_matches))

\* C11: a blank fragment followed by the fragment a gives a field that starts
\* with the separator.
C11_Witness ==
    /\ pc = "export"
    /\ results[1].text_matches = << [fragment |-> << " " >>],
                                    [fragment |-> << "a" >>] >>
    /\ results[1].fragment = FragmentSeparator \o << "a" >>

\* ---- further claims about a search call
\* C12: a request whose connection stalled is a transient fault: the call
\* has not raised and the run has not aborted; the same page is asked for
\* again.
C12_StallRetried ==
    last_request.status = TimedOut =>
      /\ call = "running"
      /\ pc = "search"
      /\ page = last_request.page

\* C12: the first request of the second organization stalled; the call
\* raised and the run ended with the error reported.
C12_Witness ==
    /\ last_request.status = TimedOut /\ last_request.attempt = 0
    /\ last_request.page = 1 /\ org_idx = 2
    /\ call = "raised" /\ pc = "error"
    /\ Reported("unexpected_error")

\* The first n items of the endpoint's ordering.
FirstItems(a, n) == [k \in 1..n |-> Item(a, k)]

\* C13: the list a search call returns holds no item twice and, with every
\* repository in scope, is the first min(N, max_results) items of the
\* endpoint's ordering.
C13_NoDuplicates ==
    call = "returned" =>
      /\ \A k \in DOMAIN all_files : Occurrences(all_files[k], all_files) = 1
      /\ repo_scope = "2" =>
           all_files = FirstItems(api, Min(api.total, max_results))

\* C13: organizations only, 3 items wanted of 3, the third User-owned: page
\* 1 of size 3 keeps two items, page 2 of size 1 serves the second item
\* again, and the call returns it twice.
C13_Witness ==
    /\ call = "returned" /\ clean /\ repo_scope = "1"
    /\ max_results = 3 /\ api.total = 3 /\ api.userEvery = 3
    /\ Len(all_files) = 3
    /\ Occurrences(Item(api, 2), all_files) = 2

C14_Done == call \in {"returned", "raised"}

\* A step that receives a 403 leaves the call running on the same page with
\* the same accumulated list, whatever number of 403 responses preceded it.
C14_RetryStep ==
    last_request'.status = 403 =>
      /\ call = "running" /\ call' = "running"
      /\ page' = page /\ all_files' = all_files /\ data' = data
      /\ last_request'.page = page
      /\ last_request'.per_page = Min(SEARCH_PER_PAGE, max_results - Len(all_files))

\* C14: a search call whose requests all receive a response, each page at
\* most finitely many consecutive 403 responses, eventually returns or
\* raises, also when organizations-only filtering discards whole pages; a
\* 403 response never ends the call and never moves it off its page, so a
\* page that keeps receiving 403 responses is retried for ever.
C14_Termination == <>C14_Done /\ [][C14_RetryStep]_vars

\* C14: every item is User-owned, organizations only: the call went through
\* more than one full page, each discarded whole, the last response came
\* after a rate-limit retry, and the call returned nothing.
C14_Witness ==
    /\ call = "returned" /\ repo_scope = "1"
    /\ api.userEvery = 1 /\ api.total > 0
    /\ all_files = <<>> /\ page > 2
    /\ last_request.after_rate_limit

\* ---- accumulation
C15_Inv ==
    /\ Len(all_files) <= max_results
    /\ page >= 1
    /\ data = Unbound => (page = 1 /\ all_files = <<>>)
    /\ last_request # NoRequest =>
         /\ last_request.per_page \in 1..SEARCH_PER_PAGE
         /\ last_request.n <= last_request.per_page
    /\ instance = "cloud" =>
         /\ Len(results) <= Completed * max_results
         /\ Len(results) <= Len(ORGANIZATIONS) * max_results

\* A step of a running call other than its cancellation is one request.
C15_Step ==
    /\ (call = "running" /\ call' # "cancelled") =>
         /\ last_request'.page = page
         /\ last_request'.per_page
                = Min(SEARCH_PER_PAGE, max_results - Len(all_files))
         /\ page' \in {page, page + 1}
         /\ page' = page + 1 <=>
              /\ last_request'.status = 200
              /\ last_request'.n = last_request'.per_page
    /\ (call # "running" /\ call' = "running") =>
         (page' = 1 /\ all_files' = <<>>)

\* C15: a search call never holds more than max_results items; every
\* request carries per_page = min(100, max_results - accumulated), which is
\* in 1..100, and the page it asks for is the page counter; the counter
\* starts at 1 in every call and goes up, by exactly 1, exactly after a
\* success that returned per_page items; the Cloud-mode aggregated list never
\* exceeds max_results per completed organization.
C15_AccumulationBounds == []C15_Inv /\ [][C15_Step]_vars

\* C15: a finished Cloud run in which every organization's search went
\* past its first page and filled its limit: the aggregated list holds
\* (number of organizations) x max_results results.
C15_Witness ==
    /\ instance = "cloud" /\ pc = "done"
    /\ max_results > SEARCH_PER_PAGE
    /\ Len(results) = Len(ORGANIZATIONS) * max_results
    /\ last_request.page = 2 /\ last_request.n = last_request.per_page

====
